---------------------------- MODULE Spec2Model ----------------------------
(* MySQL -> MongoDB migration (db구축/NoSQL_Migration): the standalone      *)
(* script MySQL_to_MongoDB.py (main) and the Lambda handler index.py        *)
(* (lambda_handler).  The relational source is read-only, the destination   *)
(* collections are dropped and re-inserted by four collection stages, then  *)
(* indexes are declared and row counts are compared.                        *)
EXTENDS Integers, Sequences, FiniteSets, TLC

(***************************************************************************)
(* Bounds of the model.                                                    *)
(***************************************************************************)
\* documents a destination collection may hold before the first run
MaxStale == 1
\* runs of the pipeline that follow one another (SpecRepeat)
MaxRuns == 2
\* calls of the two stores that may raise
MaxFaults == 1

(***************************************************************************)
(* The relational source.  A table is the set of its rows; every row is    *)
(* identified by its primary key, and the key decides the other columns    *)
(* that the model carries.                                                 *)
(***************************************************************************)
\* SQL NULL (Python None): a nullable column holds <<>> or <<value>>
Null == <<>>

CustIds == {"c1", "c2"}
ProdCds == {"p1", "p2"}
OrdNos == {1, 2}
CartSeqNos == {1, 2}
OrdItemNos == {1, 2}
EvalSeqNos == {1, 2}

\* Decimal prices are carried in hundredths: 1999 is 19.99; the column is
\* signed, -550 is -5.50
CustomerRow(c) == [cust_id |-> c, cust_name |-> IF c = "c1" THEN "Kim" ELSE "Lee"]
ProductRow(p) ==
    [prod_cd |-> p,
     prod_name |-> IF p = "p1" THEN "shirt" ELSE "pants",
     price |-> IF p = "p1" THEN 1999 ELSE -550,
     prod_intro |-> IF p = "p1" THEN <<"intro">> ELSE Null]
\* ord_date: a calendar date (order 1) or a date-time with a time of day (order 2)
OrderRow(n) ==
    [ord_no |-> n,
     ord_date |-> IF n = 1 THEN [type |-> "date", day |-> 5, time |-> 0]
                           ELSE [type |-> "datetime", day |-> 6, time |-> 930],
     ord_amount |-> IF n = 1 THEN <<2499>> ELSE Null,
     cust_id |-> IF n = 1 THEN "c1" ELSE "c2"]
CartRow(s, c) ==
    [cart_seq_no |-> s, cust_id |-> c, ord_yn |-> IF s = 1 THEN "Y" ELSE "N"]
OrdItemRow(i, n, p) == [ord_item_no |-> i, ord_no |-> n, prod_cd |-> p]
EvalRow(e, c, i) ==
    [eval_seq_no |-> e, cust_id |-> c, ord_item_no |-> i,
     eval_score |-> 5, eval_comment |-> IF e = 1 THEN <<"good">> ELSE Null]

CustomerTables == SUBSET {CustomerRow(c) : c \in CustIds}
ProductTables == SUBSET {ProductRow(p) : p \in ProdCds}
OrderTables == SUBSET {OrderRow(n) : n \in OrdNos}
\* (cust_id, cart_seq_no) is unique
CartTables == SUBSET {CartRow(s, c) : s \in CartSeqNos, c \in CustIds}
\* ord_item_no is unique; a line may name an order or a product with no row
OrdItemTables ==
    {{OrdItemRow(i, f[i].n, f[i].p) : i \in D} :
        f \in [OrdItemNos -> [n : OrdNos, p : ProdCds]], D \in SUBSET OrdItemNos}
\* eval_seq_no is unique; several reviews may name one line
EvalTables ==
    {{EvalRow(e, f[e].c, f[e].i) : e \in D} :
        f \in [EvalSeqNos -> [c : CustIds, i : OrdItemNos]], D \in SUBSET EvalSeqNos}

BaseSource ==
    [Customers |-> {CustomerRow(c) : c \in CustIds},
     Products |-> {ProductRow(p) : p \in ProdCds},
     Orders |-> {OrderRow(n) : n \in OrdNos},
     Carts |-> {CartRow(2, "c1"), CartRow(1, "c1"), CartRow(1, "c2")},
     Ord_items |-> {OrdItemRow(1, 1, "p1"), OrdItemRow(2, 1, "p2")},
     Prod_evals |-> {EvalRow(1, "c1", 1), EvalRow(2, "c2", 1)}]

\* The source states of the model: the base source with one table replaced
\* by any table over the key sets.
Sources ==
    {[BaseSource EXCEPT !.Customers = t] : t \in CustomerTables}
    \cup {[BaseSource EXCEPT !.Products = t] : t \in ProductTables}
    \cup {[BaseSource EXCEPT !.Orders = t] : t \in OrderTables}
    \cup {[BaseSource EXCEPT !.Carts = t] : t \in CartTables}
    \cup {[BaseSource EXCEPT !.Ord_items = t] : t \in OrdItemTables}
    \cup {[BaseSource EXCEPT !.Prod_evals = t] : t \in EvalTables}

\* The source states of repeated runs: the base source, and the base source
\* with one table empty.
RepeatSources ==
    {BaseSource}
    \cup {[BaseSource EXCEPT ![t] = {}] : t \in DOMAIN BaseSource}

(***************************************************************************)
(* Queries on the source, as the SQL text of the two scripts states them.  *)
(***************************************************************************)
\* cursor.fetchall() of a query with no ORDER BY: the rows in some fixed order
RECURSIVE Scan(_)
Scan(S) ==
    IF S = {} THEN <<>>
    ELSE LET r == CHOOSE x \in S : TRUE IN <<r>> \o Scan(S \ {r})

\* ORDER BY key (ascending)
RECURSIVE OrderBy(_, _)
OrderBy(S, key) ==
    IF S = {} THEN <<>>
    ELSE LET r == CHOOSE x \in S : \A y \in S : key[x] <= key[y]
         IN <<r>> \o OrderBy(S \ {r}, key)

\* faulty variant of CartQuery: the WHERE clause is left out
CartQueryNoWhere(s, cust_id) ==
    OrderBy(s.Carts, [r \in s.Carts |-> r.cart_seq_no])

\* SELECT cart_seq_no, ... FROM Carts WHERE cust_id = '..' ORDER BY cart_seq_no
CartQuery(s, cust_id) ==
    OrderBy({r \in s.Carts : r.cust_id = cust_id},
            [r \in s.Carts |-> r.cart_seq_no])

\* SELECT oi.*, p.prod_name, p.price FROM Ord_items oi
\*   JOIN Products p ON oi.prod_cd = p.prod_cd WHERE oi.ord_no = ..
OrderItemsQuery(s, ord_no) ==
    Scan({[ord_item_no |-> j[1].ord_item_no, prod_cd |-> j[1].prod_cd,
           prod_name |-> j[2].prod_name, price |-> j[2].price] :
          j \in {x \in s.Ord_items \X s.Products :
                    x[1].prod_cd = x[2].prod_cd /\ x[1].ord_no = ord_no}})

\* faulty variant of ReviewCheckQuery: the count compares the wrong column
ReviewCheckQueryWrongColumn(s, ord_item_no) ==
    Cardinality({e \in s.Prod_evals : e.eval_seq_no = ord_item_no})

\* SELECT COUNT(*) FROM Prod_evals WHERE ord_item_no = ..
ReviewCheckQuery(s, ord_item_no) ==
    Cardinality({e \in s.Prod_evals : e.ord_item_no = ord_item_no})

\* SELECT pe.*, c.cust_name, oi.ord_no FROM Prod_evals pe
\*   JOIN Customers c ON pe.cust_id = c.cust_id
\*   JOIN Ord_items oi ON pe.ord_item_no = oi.ord_item_no
ReviewsQuery(s) ==
    Scan({[eval_seq_no |-> j[1].eval_seq_no, eval_score |-> j[1].eval_score,
           eval_comment |-> j[1].eval_comment, cust_id |-> j[1].cust_id,
           ord_item_no |-> j[1].ord_item_no, cust_name |-> j[2].cust_name,
           ord_no |-> j[3].ord_no] :
          j \in {x \in s.Prod_evals \X s.Customers \X s.Ord_items :
                    x[1].cust_id = x[2].cust_id
                    /\ x[1].ord_item_no = x[3].ord_item_no}})

\* SELECT COUNT(*) FROM <table>
CountQuery(s, table) == Cardinality(s[table])

(***************************************************************************)
(* Document assembly.                                                      *)
(***************************************************************************)
\* faulty variant of ToInt: the price is rounded to the nearest integer
ToIntRound(d) == (d + 50) \div 100

\* int(Decimal): the fractional part is dropped, toward zero
ToInt(d) == IF d >= 0 THEN d \div 100 ELSE -((-d) \div 100)

\* faulty variant of OrEmpty: a null is stored as it is
OrEmptyKeepNull(v) == IF v = Null THEN "None" ELSE v[1]

\* `x if x else ""`
OrEmpty(v) == IF v = Null \/ v = <<"">> THEN "" ELSE v[1]

\* faulty variant of OrdDate: the value is stored as it was read
OrdDateKeep(d) == d

\* datetime.combine(d, datetime.min.time()) if isinstance(d, date) else d;
\* a datetime is an instance of date as well
OrdDate(d) ==
    IF d.type \in {"date", "datetime"}
    THEN [type |-> "datetime", day |-> d.day, time |-> 0]
    ELSE d

\* int(order[2]) if order[2] else 0
OrdAmount(a) == IF a = Null \/ a = <<0>> THEN 0 ELSE ToInt(a[1])

ProductDoc(product) ==
    [id |-> product.prod_cd,
     prod_name |-> product.prod_name,
     price |-> ToInt(product.price),
     detail |-> [prod_intro |-> OrEmpty(product.prod_intro)]]

CustomerDoc(s, customer, now) ==
    LET cart_items == CartQuery(s, customer.cust_id) IN
    [id |-> customer.cust_id,
     cust_name |-> customer.cust_name,
     created_at |-> now,
     cart |-> [k \in 1..Len(cart_items) |->
                 [cart_seq_no |-> cart_items[k].cart_seq_no,
                  ord_yn |-> cart_items[k].ord_yn,
                  added_date |-> now]]]

ItemDoc(s, item) ==
    [ord_item_no |-> item.ord_item_no,
     prod_cd |-> item.prod_cd,
     prod_name |-> item.prod_name,
     unit_price |-> ToInt(item.price),
     review_written |-> ReviewCheckQuery(s, item.ord_item_no) > 0]

OrderDoc(s, order) ==
    LET order_items == OrderItemsQuery(s, order.ord_no) IN
    [ord_no |-> order.ord_no,
     ord_date |-> OrdDate(order.ord_date),
     ord_amount |-> OrdAmount(order.ord_amount),
     cust_id |-> order.cust_id,
     items |-> [k \in 1..Len(order_items) |-> ItemDoc(s, order_items[k])]]

ReviewDoc(review, now) ==
    [cust_id |-> review.cust_id,
     cust_name |-> review.cust_name,
     ord_no |-> review.ord_no,
     ord_item_no |-> review.ord_item_no,
     eval_score |-> review.eval_score,
     eval_comment |-> OrEmpty(review.eval_comment),
     eval_date |-> now]

\* the document list each stage builds from the source
products_docs(s) ==
    LET products == Scan(s.Products) IN
    [k \in 1..Len(products) |-> ProductDoc(products[k])]
customers_docs(s, now) ==
    LET customers == Scan(s.Customers) IN
    [k \in 1..Len(customers) |-> CustomerDoc(s, customers[k], now)]
orders_docs(s) ==
    LET orders == Scan(s.Orders) IN
    [k \in 1..Len(orders) |-> OrderDoc(s, orders[k])]
reviews_docs(s, now) ==
    LET reviews == ReviewsQuery(s) IN
    [k \in 1..Len(reviews) |-> ReviewDoc(reviews[k], now)]

(***************************************************************************)
(* The destination, the invocation and the state of a run.                 *)
(***************************************************************************)
CollNames == {"Products", "Customers", "Orders", "Reviews"}

\* the order of main() and the default of event.get('collections', ...)
DefaultCollections == <<"Products", "Customers", "Orders", "Reviews">>

\* the lists of collections an invocation may supply
EventCollections ==
    {DefaultCollections,
     <<"Reviews", "Products">>,
     <<"Products", "Carts", "Customers">>}

DefaultEvent ==
    [collections |-> DefaultCollections, create_indexes |-> TRUE, validate |-> TRUE]

\* the events of the model: any of the lists with the default flags, and the
\* default list with any flags
Events ==
    {[DefaultEvent EXCEPT !.collections = l] : l \in EventCollections}
    \cup {[DefaultEvent EXCEPT !.create_indexes = ci, !.validate = v] :
             ci \in BOOLEAN, v \in BOOLEAN}

\* a document left in a collection by something earlier than the first run
StaleDoc(c) ==
    CASE c = "Products" ->
           [id |-> "old", prod_name |-> "old", price |-> 0,
            detail |-> [prod_intro |-> ""]]
      [] c = "Customers" ->
           [id |-> "old", cust_name |-> "old", created_at |-> 0, cart |-> <<>>]
      [] c = "Orders" ->
           [ord_no |-> 0, ord_date |-> [type |-> "datetime", day |-> 0, time |-> 0],
            ord_amount |-> 0, cust_id |-> "old", items |-> <<>>]
      [] OTHER ->
           [cust_id |-> "old", cust_name |-> "old", ord_no |-> 0, ord_item_no |-> 0,
            eval_score |-> 0, eval_comment |-> "", eval_date |-> 0]

NoExc == [type |-> "", msg |-> ""]
\* an exception raised by a call of a store: its message names the call
SourceError(at) == [type |-> "mysql.connector.Error", msg |-> at]
DestError(at) == [type |-> "PyMongoError", msg |-> at]

\* validation_results: `counted` are the pairs that have an entry
NoValidation ==
    [present |-> FALSE, overall_success |-> FALSE, error |-> "",
     counted |-> {}, match |-> [c \in CollNames |-> FALSE]]

NoResults ==
    [count |-> [c \in CollNames |-> -1], indexes_created |-> FALSE,
     validation |-> NoValidation]

NoResponse == [status |-> "none", success |-> FALSE, error |-> "", error_type |-> ""]

VARIABLES
    src,                \* the relational source (never written)
    dest,               \* collection name -> the documents it holds
    run,                \* runs started so far
    runs_left,          \* runs that may still start
    faults,             \* calls that raised so far
    entry,              \* "main" or "lambda"
    event,              \* the invocation's event (lambda)
    env_ok,             \* the required environment variables are all set
    pc,                 \* the statement the run is at
    idx,                \* position in collections_to_migrate
    stage_docs,         \* the document list of the stage in progress
    mysql_conn, mysql_cursor, mongo_client,   \* "unset", "open" or "closed"
    exc,                \* the exception the handler caught
    migration_results,  \* lambda_handler's migration_results
    response,           \* what the run returned or printed
    log,                \* the calls of this run on the stores, in order
    completed,          \* collections whose stage ran to its end in this run
    loaded,             \* collection -> the document list its stage assembled
    prev                \* how the previous run ended

conns == <<mysql_conn, mysql_cursor, mongo_client>>
invocation == <<run, runs_left, entry, event, env_ok>>
stage == <<idx, stage_docs, completed, loaded>>
vars ==
    <<src, dest, run, runs_left, faults, entry, event, env_ok, pc, idx, stage_docs,
      mysql_conn, mysql_cursor, mongo_client, exc, migration_results,
      response, log, completed, loaded, prev>>

Count(c) == Len(dest[c])

InitWith(sources, runs) ==
    /\ src \in sources
    /\ runs_left = runs
    /\ \E n \in 0..MaxStale :
          dest = [c \in CollNames |-> [k \in 1..n |-> StaleDoc(c)]]
    /\ run = 0
    /\ faults = 0
    /\ entry = "main"
    /\ event = DefaultEvent
    /\ env_ok = TRUE
    /\ pc = "done"
    /\ idx = 1
    /\ stage_docs = <<>>
    /\ mysql_conn = "unset" /\ mysql_cursor = "unset" /\ mongo_client = "unset"
    /\ exc = NoExc
    /\ migration_results = NoResults
    /\ response = NoResponse
    /\ log = <<>>
    /\ completed = {}
    /\ loaded = [c \in CollNames |-> <<>>]
    /\ prev = [full |-> FALSE, count |-> [c \in CollNames |-> 0]]

\* one run, on any source of the model
Init == InitWith(Sources, 1)

\* runs that follow one another on an unchanged source
InitRepeat == InitWith(RepeatSources, MaxRuns)

Entry(op, arg, n) == [op |-> op, arg |-> arg, n |-> n]

\* collections_to_migrate
Collections == IF entry = "main" THEN DefaultCollections ELSE event.collections

\* a call of a store may raise while the fault budget lasts
CanFault == faults < MaxFaults

(***************************************************************************)
(* Raising.  lambda_handler wraps its whole body in try/except; main()     *)
(* opens its connections before the try and closes them in the finally.    *)
(***************************************************************************)
\* faulty variant of Raise: the exception is swallowed and the run goes on
RaiseAndGoOn(e) ==
    /\ exc' = e
    /\ pc' = "indexes"
    /\ UNCHANGED response

\* an exception raised inside the try block
Raise(e) ==
    /\ exc' = e
    /\ pc' = IF entry = "lambda" THEN "l_except" ELSE "m_except"
    /\ UNCHANGED response

\* an exception raised in main() outside the try block: it leaves main()
RaiseUncaught(e) ==
    /\ exc' = e
    /\ pc' = "done"
    /\ response' = [status |-> "uncaught", success |-> FALSE,
                    error |-> e.msg, error_type |-> e.type]

\* lambda_handler(event, context) is invoked, or main() is run
StartRun ==
    /\ pc = "done"
    /\ runs_left > 0
    /\ runs_left' = runs_left - 1
    /\ run' = run + 1
    /\ \E en \in {"main", "lambda"}, ev \in Events, ok \in BOOLEAN :
          /\ en = "main" => ev = DefaultEvent
          /\ entry' = en
          /\ event' = ev
          /\ env_ok' = ok
          /\ pc' = IF en = "lambda" THEN "l_env" ELSE "connect_mysql"
    /\ prev' = [full |-> completed = CollNames /\ run > 0,
                count |-> [c \in CollNames |-> Count(c)]]
    /\ idx' = 1
    /\ stage_docs' = <<>>
    /\ mysql_conn' = "unset" /\ mysql_cursor' = "unset" /\ mongo_client' = "unset"
    /\ exc' = NoExc
    /\ migration_results' = NoResults
    /\ response' = NoResponse
    /\ log' = <<>>
    /\ completed' = {}
    /\ loaded' = [c \in CollNames |-> <<>>]
    /\ UNCHANGED <<src, dest, faults>>

\* index.py 56-59: the required environment variables
CheckEnv ==
    /\ pc = "l_env"
    /\ IF env_ok
       THEN pc' = "connect_mysql" /\ UNCHANGED exc
       ELSE exc' = [type |-> "ValueError", msg |-> "missing_vars"] /\ pc' = "l_except"
    /\ UNCHANGED <<src, dest, faults, invocation, stage, conns,
                   migration_results, response, log, prev>>

\* mysql.connector.connect(**mysql_config).  connect_to_mysql() of the script
\* checks nothing: with a variable unset the call is made with None in its
\* place, and it connects (the driver's defaults) or raises.
ConnectMysql ==
    /\ pc = "connect_mysql"
    /\ log' = Append(log, Entry("connect", "mysql", 0))
    /\ \/ /\ mysql_conn' = "open"
          /\ pc' = "cursor"
          /\ UNCHANGED <<faults, exc, response>>
       \/ /\ CanFault \/ ~env_ok
          /\ faults' = IF env_ok THEN faults + 1 ELSE faults
          /\ IF entry = "lambda"
             THEN Raise(SourceError("connect_mysql"))
             ELSE RaiseUncaught(SourceError("connect_mysql"))
          /\ UNCHANGED mysql_conn
    /\ UNCHANGED <<src, dest, invocation, stage, mysql_cursor, mongo_client,
                   migration_results, prev>>

\* mysql_conn.cursor()
OpenCursor ==
    /\ pc = "cursor"
    /\ \/ /\ mysql_cursor' = "open"
          /\ pc' = "connect_mongo"
          /\ UNCHANGED <<faults, exc, response>>
       \/ /\ CanFault
          /\ faults' = faults + 1
          /\ IF entry = "lambda"
             THEN Raise(SourceError("cursor"))
             ELSE RaiseUncaught(SourceError("cursor"))
          /\ UNCHANGED mysql_cursor
    /\ UNCHANGED <<src, dest, invocation, stage, mysql_conn, mongo_client,
                   migration_results, log, prev>>

\* MongoClient(mongodb_uri)
ConnectMongo ==
    /\ pc = "connect_mongo"
    /\ log' = Append(log, Entry("connect", "mongodb", 0))
    /\ \/ /\ mongo_client' = "open"
          /\ pc' = "loop"
          /\ UNCHANGED <<faults, exc, response>>
       \/ /\ CanFault
          /\ faults' = faults + 1
          /\ IF entry = "lambda"
             THEN Raise(DestError("connect_mongo"))
             ELSE RaiseUncaught(DestError("connect_mongo"))
          /\ UNCHANGED mongo_client
    /\ UNCHANGED <<src, dest, invocation, stage, mysql_conn, mysql_cursor,
                   migration_results, prev>>

(***************************************************************************)
(* The collection stages: migrate_<X>_collection(mysql_cursor, mongodb).   *)
(***************************************************************************)
\* faulty variant of CollectionDrop: the collection is not cleared
CollectionDropNothing(d, c) == d

\* mongodb.<c>.drop()
CollectionDrop(d, c) == [d EXCEPT ![c] = <<>>]

\* mongodb.<c>.insert_many(docs)
InsertMany(d, c, docs) == [d EXCEPT ![c] = @ \o docs]

\* faulty variant of ShouldInsert: insert_many is called whatever the list holds
ShouldInsertAlways(docs) == TRUE

\* `if <x>_docs:` before insert_many
ShouldInsert(docs) == docs # <<>>

\* the document list of the stage of collection c; datetime.now() is the run
DocsOf(c) ==
    CASE c = "Products" -> products_docs(src)
      [] c = "Customers" -> customers_docs(src, run)
      [] c = "Orders" -> orders_docs(src)
      [] OTHER -> reviews_docs(src, run)

\* faulty variant of LoopHead: a name with no branch is passed over
LoopHeadSkipUnknown ==
    /\ pc = "loop"
    /\ IF idx > Len(Collections)
       THEN pc' = "indexes" /\ UNCHANGED idx
       ELSE IF Collections[idx] \in CollNames
            THEN pc' = "drop" /\ UNCHANGED idx
            ELSE pc' = "loop" /\ idx' = idx + 1
    /\ UNCHANGED <<src, dest, faults, invocation, stage_docs, completed, loaded,
                   conns, exc, migration_results, response, log, prev>>

\* index.py 87-108 / MySQL_to_MongoDB.py 439-448: the next collection
LoopHead ==
    /\ pc = "loop"
    /\ IF idx > Len(Collections)
       THEN pc' = "indexes" /\ UNCHANGED exc
       ELSE IF Collections[idx] \in CollNames
            THEN pc' = "drop" /\ UNCHANGED exc
            \* no branch of the if/elif chain ran: migration_results[collection]
            ELSE /\ exc' = [type |-> "KeyError", msg |-> Collections[idx]]
                 /\ pc' = "l_except"
    /\ UNCHANGED <<src, dest, faults, invocation, stage, conns,
                   migration_results, response, log, prev>>

StageDrop ==
    /\ pc = "drop"
    /\ LET c == Collections[idx] IN
       \/ /\ dest' = CollectionDrop(dest, c)
          /\ log' = Append(log, Entry("drop", c, 0))
          /\ pc' = "fetch"
          /\ UNCHANGED <<faults, exc, response>>
       \/ /\ CanFault
          /\ faults' = faults + 1
          /\ Raise(DestError("drop"))
          /\ log' = Append(log, Entry("raise", "drop", 0))
          /\ UNCHANGED dest
    /\ UNCHANGED <<src, invocation, stage, conns, migration_results, prev>>

\* the SELECTs of the stage and the loop that builds the document list
StageFetch ==
    /\ pc = "fetch"
    /\ LET c == Collections[idx] IN
       \/ /\ stage_docs' = DocsOf(c)
          /\ log' = Append(log, Entry("assemble", c, Len(DocsOf(c))))
          /\ pc' = "insert"
          /\ UNCHANGED <<faults, exc, response>>
       \/ /\ CanFault
          /\ faults' = faults + 1
          /\ Raise(SourceError("fetch"))
          /\ log' = Append(log, Entry("raise", "fetch", 0))
          /\ UNCHANGED stage_docs
    /\ UNCHANGED <<src, dest, invocation, idx, completed, loaded, conns,
                   migration_results, prev>>

\* the end of a stage: its result, and index.py 107-109
StageEnd(c) ==
    /\ completed' = completed \cup {c}
    /\ loaded' = [loaded EXCEPT ![c] = stage_docs]
    /\ migration_results' =
          IF entry = "lambda"
          THEN [migration_results EXCEPT !.count[c] = Len(stage_docs)]
          ELSE migration_results
    /\ idx' = idx + 1
    /\ stage_docs' = <<>>
    /\ pc' = "loop"

StageInsert ==
    /\ pc = "insert"
    /\ LET c == Collections[idx] IN
       \/ /\ ShouldInsert(stage_docs)
          /\ dest' = InsertMany(dest, c, stage_docs)
          /\ log' = Append(log, Entry("insert", c, Len(stage_docs)))
          /\ StageEnd(c)
          /\ UNCHANGED <<faults, exc, response>>
       \/ /\ ~ShouldInsert(stage_docs)
          /\ StageEnd(c)
          /\ UNCHANGED <<dest, log, faults, exc, response>>
       \/ /\ ShouldInsert(stage_docs)
          /\ CanFault
          /\ faults' = faults + 1
          \* an ordered bulk write stops at the first document that fails
          /\ \E k \in 0..(Len(stage_docs) - 1) :
                dest' = InsertMany(dest, c, SubSeq(stage_docs, 1, k))
          /\ Raise(DestError("insert"))
          /\ log' = Append(log, Entry("raise", "insert", 0))
          /\ UNCHANGED <<stage, migration_results>>
    /\ UNCHANGED <<src, invocation, conns, prev>>

(***************************************************************************)
(* create_indexes(mongodb) and validate_migration(mysql_cursor, mongodb).  *)
(***************************************************************************)
\* index.py 506-529 catches what create_index raises and logs a warning;
\* MySQL_to_MongoDB.py 335-355 has no try.  index.py 116 follows either way.
CreateIndexes ==
    /\ pc = "indexes"
    /\ \/ /\ entry = "lambda"
          /\ ~event.create_indexes
          /\ UNCHANGED <<faults, exc, response, log, migration_results>>
          /\ pc' = "validate"
       \/ /\ entry = "lambda" => event.create_indexes
          /\ log' = Append(log, Entry("create_indexes", "", 0))
          /\ migration_results' =
                IF entry = "lambda"
                THEN [migration_results EXCEPT !.indexes_created = TRUE]
                ELSE migration_results
          /\ pc' = "validate"
          /\ UNCHANGED <<faults, exc, response>>
       \/ /\ entry = "lambda"
          /\ event.create_indexes
          /\ CanFault
          /\ faults' = faults + 1
          /\ log' = Append(log, Entry("warning", "create_index", 0))
          /\ migration_results' = [migration_results EXCEPT !.indexes_created = TRUE]
          /\ pc' = "validate"
          /\ UNCHANGED <<exc, response>>
       \/ /\ entry = "main"
          /\ CanFault
          /\ faults' = faults + 1
          /\ log' = Append(log, Entry("raise_index", "create_index", 0))
          /\ Raise(DestError("create_index"))
          /\ UNCHANGED migration_results
    /\ UNCHANGED <<src, dest, invocation, stage, conns, prev>>

\* the table validate_migration counts for a collection
TableOf(c) == IF c = "Reviews" THEN "Prod_evals" ELSE c

\* the order of the four comparisons
ValidateOrder == <<"Customers", "Products", "Orders", "Reviews">>

\* faulty variant of Match: a count of 0 is taken for no count
MatchTruthy(s, d, c) ==
    CountQuery(s, TableOf(c)) # 0 /\ CountQuery(s, TableOf(c)) = Len(d[c])

\* 'match': mysql_count == mongodb_count
Match(s, d, c) == CountQuery(s, TableOf(c)) = Len(d[c])

\* faulty variant of ValidationOf: the reviews pair is left out of all_match
ValidationOfWithoutReviews(s, d) ==
    LET match == [c \in CollNames |-> Match(s, d, c)] IN
    [present |-> TRUE,
     overall_success |-> match["Customers"] /\ match["Products"]
                           /\ match["Orders"],
     error |-> "",
     counted |-> CollNames,
     match |-> match]

\* index.py 552-619: the result when no call raises; all_match is the `and`
\* of the four recorded 'match' entries
ValidationOf(s, d) ==
    LET match == [c \in CollNames |-> Match(s, d, c)] IN
    [present |-> TRUE,
     overall_success |-> match["Customers"] /\ match["Products"]
                           /\ match["Orders"] /\ match["Reviews"],
     error |-> "",
     counted |-> CollNames,
     match |-> match]

\* index.py 623-626: a call raised after k comparisons were recorded
ValidationError(s, d, k) ==
    [present |-> TRUE,
     overall_success |-> FALSE,
     error |-> "validate",
     counted |-> {ValidateOrder[j] : j \in 1..k},
     match |-> [c \in CollNames |->
                  c \in {ValidateOrder[j] : j \in 1..k} /\ Match(s, d, c)]]

Validate ==
    /\ pc = "validate"
    /\ \/ /\ entry = "lambda"
          /\ ~event.validate
          /\ pc' = "l_close_cursor"
          /\ UNCHANGED <<faults, exc, response, log, migration_results>>
       \/ /\ entry = "lambda"
          /\ event.validate
          /\ log' = Append(log, Entry("validate", "", 0))
          /\ migration_results' =
                [migration_results EXCEPT !.validation = ValidationOf(src, dest)]
          /\ pc' = "l_close_cursor"
          /\ UNCHANGED <<faults, exc, response>>
       \/ /\ entry = "lambda"
          /\ event.validate
          /\ CanFault
          /\ faults' = faults + 1
          /\ log' = Append(log, Entry("validate_error", "", 0))
          /\ \E k \in 0..Len(ValidateOrder) :
                migration_results' =
                   [migration_results EXCEPT
                       !.validation = ValidationError(src, dest, k)]
          /\ pc' = "l_close_cursor"
          /\ UNCHANGED <<exc, response>>
       \/ /\ entry = "main"
          /\ log' = Append(log, Entry("validate", "", 0))
          \* MySQL_to_MongoDB.py 456-457
          /\ response' = [status |-> "completed", success |-> TRUE,
                          error |-> "", error_type |-> ""]
          /\ pc' = "m_finally_cursor"
          /\ UNCHANGED <<faults, exc, migration_results>>
       \/ /\ entry = "main"
          /\ CanFault
          /\ faults' = faults + 1
          /\ log' = Append(log, Entry("raise_validate", "", 0))
          /\ Raise(SourceError("validate"))
          /\ UNCHANGED migration_results
    /\ UNCHANGED <<src, dest, invocation, stage, conns, prev>>

(***************************************************************************)
(* The end of lambda_handler.                                              *)
(***************************************************************************)
\* index.py 134
CloseCursor ==
    /\ pc = "l_close_cursor"
    /\ \/ /\ mysql_cursor' = "closed"
          /\ pc' = "l_close_conn"
          /\ UNCHANGED <<faults, exc, response>>
       \/ /\ CanFault
          /\ faults' = faults + 1
          /\ Raise(SourceError("cursor_close"))
          /\ UNCHANGED mysql_cursor
    /\ UNCHANGED <<src, dest, invocation, stage, mysql_conn, mongo_client,
                   migration_results, log, prev>>

\* index.py 135
CloseConn ==
    /\ pc = "l_close_conn"
    /\ \/ /\ mysql_conn' = "closed"
          /\ pc' = "l_close_client"
          /\ UNCHANGED <<faults, exc, response>>
       \/ /\ CanFault
          /\ faults' = faults + 1
          /\ Raise(SourceError("conn_close"))
          /\ UNCHANGED mysql_conn
    /\ UNCHANGED <<src, dest, invocation, stage, mysql_cursor, mongo_client,
                   migration_results, log, prev>>

\* index.py 136
CloseClient ==
    /\ pc = "l_close_client"
    /\ \/ /\ mongo_client' = "closed"
          /\ pc' = "l_return"
          /\ UNCHANGED <<faults, exc, response>>
       \/ /\ CanFault
          /\ faults' = faults + 1
          /\ Raise(DestError("client_close"))
          /\ UNCHANGED mongo_client
    /\ UNCHANGED <<src, dest, invocation, stage, mysql_conn, mysql_cursor,
                   migration_results, log, prev>>

\* index.py 142-155
LambdaReturn ==
    /\ pc = "l_return"
    /\ response' = [status |-> "200", success |-> TRUE,
                    error |-> "", error_type |-> ""]
    /\ pc' = "done"
    /\ UNCHANGED <<src, dest, faults, invocation, stage, conns, exc,
                   migration_results, log, prev>>

\* index.py 157-165: the handler logs the error and closes the cursor if the
\* name is bound; whatever the cleanup raises is passed over (170-171)
ExceptCursor ==
    /\ pc = "l_except"
    /\ \/ /\ mysql_cursor = "unset"
          /\ pc' = "l_cleanup_conn"
          /\ UNCHANGED <<faults, mysql_cursor>>
       \/ /\ mysql_cursor # "unset"
          /\ mysql_cursor' = "closed"
          /\ pc' = "l_cleanup_conn"
          /\ UNCHANGED faults
       \/ /\ mysql_cursor # "unset"
          /\ CanFault
          /\ faults' = faults + 1
          /\ pc' = "l_return_err"
          /\ UNCHANGED mysql_cursor
    /\ UNCHANGED <<src, dest, invocation, stage, mysql_conn, mongo_client, exc,
                   migration_results, response, log, prev>>

\* index.py 166-167
ExceptConn ==
    /\ pc = "l_cleanup_conn"
    /\ \/ /\ mysql_conn = "unset"
          /\ pc' = "l_cleanup_client"
          /\ UNCHANGED <<faults, mysql_conn>>
       \/ /\ mysql_conn # "unset"
          /\ mysql_conn' = "closed"
          /\ pc' = "l_cleanup_client"
          /\ UNCHANGED faults
       \/ /\ mysql_conn # "unset"
          /\ CanFault
          /\ faults' = faults + 1
          /\ pc' = "l_return_err"
          /\ UNCHANGED mysql_conn
    /\ UNCHANGED <<src, dest, invocation, stage, mysql_cursor, mongo_client, exc,
                   migration_results, response, log, prev>>

\* index.py 168-169
ExceptClient ==
    /\ pc = "l_cleanup_client"
    /\ \/ /\ mongo_client = "unset"
          /\ UNCHANGED <<faults, mongo_client>>
       \/ /\ mongo_client # "unset"
          /\ mongo_client' = "closed"
          /\ UNCHANGED faults
       \/ /\ mongo_client # "unset"
          /\ CanFault
          /\ faults' = faults + 1
          /\ UNCHANGED mongo_client
    /\ pc' = "l_return_err"
    /\ UNCHANGED <<src, dest, invocation, stage, mysql_conn, mysql_cursor, exc,
                   migration_results, response, log, prev>>

\* index.py 174-186
LambdaReturnError ==
    /\ pc = "l_return_err"
    /\ response' = [status |-> "500", success |-> FALSE,
                    error |-> exc.msg, error_type |-> exc.type]
    /\ pc' = "done"
    /\ UNCHANGED <<src, dest, faults, invocation, stage, conns, exc,
                   migration_results, log, prev>>

(***************************************************************************)
(* The end of main().                                                      *)
(***************************************************************************)
\* MySQL_to_MongoDB.py 459-462
MainExcept ==
    /\ pc = "m_except"
    /\ log' = Append(log, Entry("print_error", exc.msg, 0))
    /\ response' = [status |-> "error_printed", success |-> FALSE,
                    error |-> exc.msg, error_type |-> ""]
    /\ pc' = "m_finally_cursor"
    /\ UNCHANGED <<src, dest, faults, invocation, stage, conns, exc,
                   migration_results, prev>>

\* MySQL_to_MongoDB.py 466
FinallyCursor ==
    /\ pc = "m_finally_cursor"
    /\ \/ /\ mysql_cursor' = "closed"
          /\ pc' = "m_finally_conn"
          /\ UNCHANGED <<faults, exc, response>>
       \/ /\ CanFault
          /\ faults' = faults + 1
          /\ RaiseUncaught(SourceError("cursor_close"))
          /\ UNCHANGED mysql_cursor
    /\ UNCHANGED <<src, dest, invocation, stage, mysql_conn, mongo_client,
                   migration_results, log, prev>>

\* MySQL_to_MongoDB.py 467-468: the MongoClient is left to itself
FinallyConn ==
    /\ pc = "m_finally_conn"
    /\ \/ /\ mysql_conn' = "closed"
          /\ pc' = "done"
          /\ UNCHANGED <<faults, exc, response>>
       \/ /\ CanFault
          /\ faults' = faults + 1
          /\ RaiseUncaught(SourceError("conn_close"))
          /\ UNCHANGED mysql_conn
    /\ UNCHANGED <<src, dest, invocation, stage, mysql_cursor, mongo_client,
                   migration_results, log, prev>>

Next ==
    \/ StartRun
    \/ CheckEnv
    \/ ConnectMysql
    \/ OpenCursor
    \/ ConnectMongo
    \/ LoopHead
    \/ StageDrop
    \/ StageFetch
    \/ StageInsert
    \/ CreateIndexes
    \/ Validate
    \/ CloseCursor
    \/ CloseConn
    \/ CloseClient
    \/ LambdaReturn
    \/ ExceptCursor
    \/ ExceptConn
    \/ ExceptClient
    \/ LambdaReturnError
    \/ MainExcept
    \/ FinallyCursor
    \/ FinallyConn

Spec == Init /\ [][Next]_vars

SpecRepeat == InitRepeat /\ [][Next]_vars

(***************************************************************************)
(* Properties.                                                             *)
(***************************************************************************)
\* the order-line rows of order ord_no
LinesOf(ord_no) == {oi \in src.Ord_items : oi.ord_no = ord_no}

\* C1: once the Orders stage has run, every order document's items array is
\* as long as the number of order-line rows whose owning order is that order.
C1_ItemsPerOrderLine ==
    "Orders" \in completed =>
        \A k \in 1..Len(dest["Orders"]) :
            Len(dest["Orders"][k].items)
                = Cardinality(LinesOf(dest["Orders"][k].ord_no))

\* the elements of a sequence
Range(q) == {q[i] : i \in 1..Len(q)}

\* every embedded item of every order document of the destination
OrderItems == UNION {Range(d.items) : d \in Range(dest["Orders"])}

\* the review rows that reference order-line ord_item_no
ReviewsOf(ord_item_no) == {e \in src.Prod_evals : e.ord_item_no = ord_item_no}

\* C2: once the Orders stage has run, an embedded item's review_written is
\* true exactly when at least one review row references its order-line.
C2_ReviewWritten ==
    "Orders" \in completed =>
        \A it \in OrderItems :
            it.review_written <=> (ReviewsOf(it.ord_item_no) # {})

\* an item with several reviews is flagged, beside an item with none
C2_Witness ==
    /\ "Orders" \in completed
    /\ \E it \in OrderItems :
          it.review_written /\ Cardinality(ReviewsOf(it.ord_item_no)) >= 2
    /\ \E it \in OrderItems : ~it.review_written

\* the cart rows of customer cust_id
CartRowsOf(cust_id) == {r \in src.Carts : r.cust_id = cust_id}

C4_OneDocPerReview ==
    "Reviews" \in completed =>
        Count("Reviews") = CountQuery(src, "Prod_evals")

\* the calls of this run on collection c, in order
OpsOn(c) ==
    LET at == {i \in 1..Len(log) :
                  log[i].arg = c /\ log[i].op \in {"drop", "insert"}}
    IN [k \in 1..Cardinality(at) |->
          log[CHOOSE i \in at : Cardinality({j \in at : j <= i}) = k].op]

\* C5: a collection whose stage has run to its end holds exactly the
\* documents assembled in this run; the stage dropped the collection first
\* and issued one insert_many after it, and none for an empty list.
C5_CleanLoad ==
    \A c \in completed :
        /\ dest[c] = DocsOf(c)
        /\ loaded[c] = DocsOf(c)
        /\ OpsOn(c) = IF DocsOf(c) = <<>> THEN <<"drop">> ELSE <<"drop", "insert">>

\* a collection that held documents before the run was cleared by a stage
\* that had nothing to insert, and another one was cleared and reloaded
C5_Witness ==
    /\ \E c \in completed :
          prev.count[c] > 0 /\ DocsOf(c) = <<>> /\ dest[c] = <<>>
    /\ \E c \in completed :
          prev.count[c] > 0 /\ DocsOf(c) # <<>> /\ dest[c] = DocsOf(c)

\* C6: when two runs that follow one another both load all four
\* collections, every collection holds as many documents after the second
\* as after the first.
C6_SameCounts ==
    (pc = "done" /\ prev.full /\ completed = CollNames) =>
        \A c \in CollNames : Count(c) = prev.count[c]

C6_Witness ==
    /\ pc = "done" /\ prev.full /\ completed = CollNames
    /\ run = 2
    /\ \A c \in CollNames : Count(c) > 0

\* the place of a collection in the dependency order
Rank(c) == CHOOSE k \in 1..Len(DefaultCollections) : DefaultCollections[k] = c

\* the stage calls of this run, in order
StageLog == SelectSeq(log, LAMBDA e : e.op \in {"drop", "assemble", "insert"})

\* C7: in every run the stages run in the order Products, Customers,
\* Orders, Reviews, and no call of a stage follows a call of a later stage.
C7_StageOrder ==
    \A i, j \in 1..Len(StageLog) :
        i < j => Rank(StageLog[i].arg) <= Rank(StageLog[j].arg)

\* the exception type of a stage call, by the call that raised
StageErrorType(msg) ==
    IF msg = "fetch" THEN "mysql.connector.Error" ELSE "PyMongoError"

\* C8: after a call of a collection stage raised, the run calls no further
\* stage, builds no index and validates nothing, and it ends with a failure
\* that carries the message (lambda_handler: statusCode 500, success false,
\* the message and the exception type; main: the message is printed).
C8_StageErrorHalts ==
    \A i \in 1..Len(log) :
        log[i].op = "raise" =>
            /\ i = Len(log) \/ (i + 1 = Len(log) /\ log[i + 1].op = "print_error")
            /\ migration_results.indexes_created = FALSE
            /\ migration_results.validation.present = FALSE
            /\ pc \notin {"loop", "drop", "fetch", "insert", "indexes", "validate",
                          "l_close_cursor", "l_close_conn", "l_close_client",
                          "l_return"}
            /\ pc = "done" =>
                  /\ response.success = FALSE
                  /\ response.status \in {"500", "error_printed", "uncaught"}
                  /\ entry = "lambda" =>
                        response = [status |-> "500", success |-> FALSE,
                                    error |-> log[i].arg,
                                    error_type |-> StageErrorType(log[i].arg)]
                  /\ entry = "main" =>
                        log[Len(log)] = Entry("print_error", log[i].arg, 0)

\* a stage raised while later collections were still to be migrated, and the
\* run has ended
C8_Witness ==
    /\ pc = "done"
    /\ \E i \in 1..Len(log) : log[i].op = "raise"
    /\ idx < Len(Collections)
    /\ completed # {}

\* C9: when a run has ended, no connection it opened is still open.
C9_AllClosed ==
    (pc = "done" /\ run > 0) =>
        /\ mysql_cursor # "open"
        /\ mysql_conn # "open"
        /\ mongo_client # "open"

\* C10: when the index build raised, the run still validates and ends
\* normally, and its result does not report the indexes as created.
C10_IndexFailureIsWarning ==
    (pc = "done"
       /\ \E i \in 1..Len(log) : log[i].op \in {"warning", "raise_index"}
       /\ (entry = "lambda" => event.validate)) =>
        /\ \E i \in 1..Len(log) : log[i].op \in {"validate", "validate_error"}
        /\ response.status \in {"200", "completed"}
        /\ migration_results.indexes_created = FALSE

\* the relational table whose rows become the documents of collection c
SourceTable(c) == IF c = "Reviews" THEN src.Prod_evals ELSE src[c]

\* C11: when validate_migration ended without an error, overall_success is
\* the AND of the four recorded match flags, and each flag is true exactly
\* when the table's row count equals the collection's document count.
C11_OverallIsAnd ==
    LET v == migration_results.validation IN
    (v.present /\ v.error = "") =>
        /\ v.counted = CollNames
        /\ v.overall_success <=> (\A c \in CollNames : v.match[c])
        /\ \A c \in CollNames :
              v.match[c] <=> (Cardinality(SourceTable(c)) = Len(dest[c]))

\* three pairs match and the reviews pair does not
C11_Witness ==
    LET v == migration_results.validation IN
    /\ v.present /\ v.error = ""
    /\ v.match["Customers"] /\ v.match["Products"] /\ v.match["Orders"]
    /\ ~v.match["Reviews"]
    /\ ~v.overall_success

\* C12: when a call of validate_migration raised, the run still ends with
\* its normal result, and the validation result (lambda_handler) carries the
\* error message and overall_success false.
C12_ValidationErrorCaught ==
    (pc = "done"
       /\ \E i \in 1..Len(log) : log[i].op \in {"validate_error", "raise_validate"}) =>
        /\ response.status \in {"200", "completed"}
        /\ entry = "lambda" =>
              /\ migration_results.validation.present
              /\ migration_results.validation.error # ""
              /\ migration_results.validation.overall_success = FALSE

\* C13: a collection whose table has no row is dropped by its stage, gets an
\* empty document list and no insert_many, and the validator records a match
\* for its pair.
C13_EmptyTable ==
    \A c \in completed :
        SourceTable(c) = {} =>
            /\ loaded[c] = <<>>
            /\ dest[c] = <<>>
            /\ OpsOn(c) = <<"drop">>
            /\ (migration_results.validation.present
                  /\ c \in migration_results.validation.counted) =>
                  migration_results.validation.match[c]

\* a collection that held a document before the run, with an empty table,
\* has been validated
C13_Witness ==
    \E c \in completed :
        /\ SourceTable(c) = {}
        /\ prev.count[c] > 0
        /\ Count(c) = 0
        /\ migration_results.validation.present
        /\ migration_results.validation.error = ""
        /\ migration_results.validation.match[c]

\* C14: a run with a required connection parameter missing attempts no
\* connection and drops no collection, and it ends with a failure that names
\* the missing configuration.
C14_MissingConfigFailsFast ==
    (run > 0 /\ ~env_ok) =>
        /\ \A i \in 1..Len(log) : log[i].op \notin {"connect", "drop"}
        /\ mysql_conn = "unset" /\ mongo_client = "unset"
        /\ pc = "done" =>
              /\ response.success = FALSE
              /\ response.error_type = "ValueError"
              /\ response.error = "missing_vars"

\* n is the decimal x (in hundredths) with its fractional part dropped
Truncated(x, n) ==
    /\ x >= 0 => (n >= 0 /\ 100 * n <= x /\ x < 100 * n + 100)
    /\ x <= 0 => (n <= 0 /\ 100 * n >= x /\ x > 100 * n - 100)

\* C15: the price of a product document and the unit_price of an embedded
\* item are the source price with its fractional part dropped, toward zero,
\* and converting a stored price again leaves it as it is.
C15_PriceTruncated ==
    /\ "Products" \in completed =>
          \A p \in src.Products :
              \E d \in Range(dest["Products"]) :
                  /\ d.id = p.prod_cd
                  /\ Truncated(p.price, d.price)
                  /\ ToInt(100 * d.price) = d.price
    /\ "Orders" \in completed =>
          \A it \in OrderItems :
              \A p \in src.Products :
                  p.prod_cd = it.prod_cd =>
                      /\ Truncated(p.price, it.unit_price)
                      /\ ToInt(100 * it.unit_price) = it.unit_price

\* 19.99 is stored as 19 and -5.50 as -5, in a product and in an item
C15_Witness ==
    /\ {"Products", "Orders"} \subseteq completed
    /\ \E d \in Range(dest["Products"]) : d.price = 19
    /\ \E d \in Range(dest["Products"]) : d.price = -5
    /\ \E it \in OrderItems : it.unit_price = 19
    /\ \E it \in OrderItems : it.unit_price = -5

\* the text a nullable column is to be stored as
TextOf(v) == IF v = Null THEN "" ELSE v[1]

\* the review rows whose customer and order-line exist
JoinedReviews ==
    {e \in src.Prod_evals :
        /\ \E cu \in src.Customers : cu.cust_id = e.cust_id
        /\ \E oi \in src.Ord_items : oi.ord_item_no = e.ord_item_no}

\* C16: every product document has detail.prod_intro and every review
\* document has eval_comment; the field is "" when the source value is null
\* and the source text otherwise.
C16_NullTextIsEmpty ==
    /\ "Products" \in completed =>
          /\ \A d \in Range(dest["Products"]) : "prod_intro" \in DOMAIN d.detail
          /\ \A p \in src.Products :
                \E d \in Range(dest["Products"]) :
                    d.id = p.prod_cd /\ d.detail.prod_intro = TextOf(p.prod_intro)
    /\ "Reviews" \in completed =>
          /\ \A d \in Range(dest["Reviews"]) : "eval_comment" \in DOMAIN d
          /\ {<<d.cust_id, d.ord_item_no, d.eval_comment>> :
                 d \in Range(dest["Reviews"])}
               = {<<e.cust_id, e.ord_item_no, TextOf(e.eval_comment)>> :
                     e \in JoinedReviews}

\* a null and a text, in the products and in the reviews
C16_Witness ==
    /\ {"Products", "Reviews"} \subseteq completed
    /\ \E p \in src.Products : p.prod_intro = Null
    /\ \E d \in Range(dest["Products"]) : d.detail.prod_intro = ""
    /\ \E d \in Range(dest["Products"]) : d.detail.prod_intro = "intro"
    /\ \E e \in JoinedReviews : e.eval_comment = Null
    /\ \E d \in Range(dest["Reviews"]) : d.eval_comment = ""
    /\ \E d \in Range(dest["Reviews"]) : d.eval_comment = "good"

\* C17: an order whose ord_date is a calendar date is stored with a
\* date-time on that day at midnight.
C17_DateAtMidnight ==
    "Orders" \in completed =>
        \A o \in src.Orders :
            o.ord_date.type = "date" =>
                \E d \in Range(dest["Orders"]) :
                    /\ d.ord_no = o.ord_no
                    /\ d.ord_date = [type |-> "datetime", day |-> o.ord_date.day,
                                     time |-> 0]

C17_Witness ==
    /\ "Orders" \in completed
    /\ \E o \in src.Orders :
          /\ o.ord_date.type = "date"
          /\ \E d \in Range(dest["Orders"]) :
                d.ord_no = o.ord_no /\ d.ord_date.type = "datetime"

\* C18: a stage drops its collection only after it has assembled the
\* documents, and a source error raised while it assembles leaves the
\* collection with as many documents as it held before the stage.
C18_ClearAfterAssembly ==
    /\ \A i, j \in 1..Len(log) :
          (log[i].op = "drop" /\ log[j].op = "assemble" /\ log[i].arg = log[j].arg)
              => j < i
    /\ \A i \in 1..Len(log) :
          (log[i].op = "raise" /\ log[i].arg = "fetch") =>
              Count(Collections[idx]) = prev.count[Collections[idx]]

\* C19: lambda_handler returns success true after a validation only when
\* the validation's overall_success is true.
C19_SuccessFollowsValidation ==
    (pc = "done" /\ entry = "lambda" /\ migration_results.validation.present
       /\ response.success) =>
        migration_results.validation.overall_success

\* the positions of collections_to_migrate that hold no known name
UnknownAt == {k \in 1..Len(Collections) : Collections[k] \notin CollNames}

\* C20: a lambda_handler run whose list holds a name with no stage ends with
\* a failure; it loads no collection listed after the name, builds no index
\* and validates nothing; when it got as far as the name, every collection
\* listed before it has been dropped and reloaded.
C20_UnknownCollection ==
    (pc = "done" /\ run > 0 /\ entry = "lambda" /\ UnknownAt # {}) =>
        LET k == CHOOSE x \in UnknownAt : \A y \in UnknownAt : x <= y
            before == {Collections[j] : j \in 1..(k - 1)}
            after == {Collections[j] : j \in (k + 1)..Len(Collections)}
        IN /\ response.status = "500" /\ response.success = FALSE
           /\ completed \subseteq before
           /\ \A c \in after :
                 /\ OpsOn(c) = <<>>
                 /\ Count(c) = prev.count[c]
           /\ \A i \in 1..Len(log) :
                 log[i].op \notin {"create_indexes", "warning", "validate",
                                   "validate_error"}
           /\ migration_results.indexes_created = FALSE
           /\ migration_results.validation.present = FALSE
           /\ exc.type = "KeyError" =>
                 /\ completed = before
                 /\ \A c \in before :
                       dest[c] = DocsOf(c) /\ OpsOn(c)[1] = "drop"
                 /\ response.error_type = "KeyError"

\* the run stopped at the unknown name: the collection before it is
\* reloaded, the one after it still holds what it held
C20_Witness ==
    /\ pc = "done" /\ entry = "lambda"
    /\ exc.type = "KeyError"
    /\ response.status = "500"
    /\ completed = {"Products"}
    /\ prev.count["Products"] > 0
    /\ dest["Products"] = DocsOf("Products")
    /\ Count("Customers") = prev.count["Customers"]
    /\ Count("Customers") > 0

\* C21: an order whose ord_date is a date-time with a time of day other than
\* midnight is stored with that date-time, unchanged.
C21_DateTimeUnchanged ==
    "Orders" \in completed =>
        \A o \in src.Orders :
            (o.ord_date.type = "datetime" /\ o.ord_date.time # 0) =>
                \E d \in Range(dest["Orders"]) :
                    d.ord_no = o.ord_no /\ d.ord_date = o.ord_date

=============================================================================
